---- MODULE Spec2Model ----
(***************************************************************************)
(* Model of telegrinder's node composer (telegrinder/node/composer.py):    *)
(* compose_nodes / compose_node / run_node_composers, NodeSession.close    *)
(* and NodeCollection.close_all, run on an asyncio event loop.             *)
(*                                                                         *)
(* Sessions live on a heap (sess) and are referred to by reference, so     *)
(* that "the identical session" is a comparison of references.  A          *)
(* reference names the place that created the object: <<call, name>> for   *)
(* the session a top-level task returns, that reference with the position  *)
(* appended for the session of a sub-node composed below it (and so on,    *)
(* one position per level); Nil is "no object".  A task is                 *)
(* the chain of compose_node coroutines it is executing (one frame per     *)
(* recursive call); a task is switched out only where a producer awaits.   *)
(***************************************************************************)
EXTENDS Naturals, Sequences, FiniteSets

\* ------------------------------------------------------------------ bounds

MaxCalls == 2        \* compose_nodes calls made in one behaviour
MaxEvents == 2       \* event contexts (Context objects) used in one behaviour
MaxCloses == 2       \* close_all calls made on one returned collection
MaxDepth == 5        \* nested compose_node coroutines the interpreter allows

\* ------------------------------------------------- the declared node types
\* W: PER_CALL, resumable, leaf          Z: PER_CALL, plain, leaf, may fail
\* Y: PER_EVENT, resumable, leaf, may fail
\* G: GLOBAL, resumable, leaf            E: PER_EVENT, resumable, needs W
\* X: PER_CALL, resumable, needs Y and G
\* P: PER_CALL, plain, needs W and P (a declaration that refers to itself)
\* None of them declares a context annotation of its own.

NodeTypes == {"W", "Z", "Y", "G", "E", "X", "P"}

\* getattr(node_t, "scope", None)
Scope(T) ==
    CASE T \in {"Y", "E"} -> "PER_EVENT"
      [] T = "G" -> "GLOBAL"
      [] OTHER   -> "PER_CALL"

\* node.get_sub_nodes(), in the order of the dict (the name is the position)
SubNodes(T) ==
    CASE T = "X" -> <<"Y", "G">>
      [] T = "E" -> <<"W">>
      [] T = "P" -> <<"W", "P">>
      [] OTHER   -> <<>>

\* node.is_generator()
IsGenerator(T) == T \in {"W", "Y", "G", "E", "X"}

\* what awaiting node.compose(...) / generator.asend(None) can end in
Outcomes(T) ==
    IF T \in {"Z", "Y"}
    THEN {"ok", "ComposeError", "UnwrapError", "OtherError"}
    ELSE {"ok"}

\* the exceptions named by suppress(...) in run_node_composers
Suppressed == {"ComposeError", "UnwrapError"}

\* the handlers: the nodes dict in parameter order (the name is the
\* position) and whether the handler also has context annotations
Requests ==
    { [nodes |-> <<"X", "X">>, ann |-> FALSE],
      [nodes |-> <<"W", "Z">>, ann |-> FALSE],
      [nodes |-> <<"E", "G">>, ann |-> FALSE],
      [nodes |-> <<"G", "Y">>, ann |-> TRUE],
      [nodes |-> <<"X">>, ann |-> FALSE],
      [nodes |-> <<"W", "E">>, ann |-> TRUE],
      [nodes |-> <<"P">>, ann |-> FALSE] }

\* the scopes argument of close_all / close
ScopeSets ==
    { {"PER_CALL"}, {"PER_CALL", "PER_EVENT", "GLOBAL"} }

DefaultScopes == {"PER_CALL"}

\* the with_value argument of close_all
CloseValues == {"None", "v"}

VARIABLES
    sess,       \* heap of NodeSession objects: reference -> object
    node_ctx,   \* node_ctx[e][T]: ctx["node_ctx"] of event context e; Nil = no entry
    gvalue,     \* gvalue[T]: the _value attribute of node class T; Nil = not set
    ev,         \* the event context in use
    tasks,      \* the asyncio tasks created so far and not yet forgotten
    call,       \* the compose_nodes call in progress or last returned
    ncalls,     \* number of compose_nodes calls started
    prod,       \* prod[e][T]: invocations of T's producer under event context e
    hist        \* hist[c]: how the c-th compose_nodes call returned

vars == <<sess, node_ctx, gvalue, ev, tasks, call, ncalls, prod, hist>>

\* ----------------------------------------------------------------- helpers

\* d[k] = v on an insertion-ordered dict held as a sequence of <<key, value>>
DictSet(d, k, v) ==
    IF \E i \in 1..Len(d) : d[i][1] = k
    THEN [i \in 1..Len(d) |-> IF d[i][1] = k THEN <<k, v>> ELSE d[i]]
    ELSE Append(d, <<k, v>>)

DictGet(d, k) == d[CHOOSE i \in 1..Len(d) : d[i][1] = k][2]

\* list(d.values())
DictValues(d) == [i \in 1..Len(d) |-> d[i][2]]

Nil == <<>>

EmptyCtx == [T \in NodeTypes |-> Nil]

NoCount == [T \in NodeTypes |-> 0]

\* the heap with a new object
Alloc(heap, ref, obj) ==
    [r \in DOMAIN heap \cup {ref} |-> IF r = ref THEN obj ELSE heap[r]]

Idx(n) == [i \in 1..n |-> i]

NoCall ==
    [id |-> 0, pc |-> "idle", ev |-> 0, req |-> <<>>, ann |-> FALSE,
     ns |-> <<>>, err |-> "none", result |-> "none", handler |-> "no",
     closes |-> 0, scopes |-> <<>>]

\* ------------------------------------------------------------ NodeSession

\* NodeSession(node_type, value, subnodes, generator); node "NONE" is
\* node_type None.  gen: "none" = no generator was given, "open" = a live
\* generator suspended at its yield, "done" = the field was set back to
\* None by close.  resumes and val record history only: how many times
\* close resumed the generator, and with which value.
NewSession(T, subs) ==
    [node |-> T, subs |-> subs,
     gen |-> IF T # "NONE" /\ IsGenerator(T) THEN "open" ELSE "none",
     resumes |-> 0, val |-> "-"]

\* self.generator is None
GeneratorIsNone(s) == s.gen # "open"

\* OutOfScope without the scope test
OutOfScope_never(s, scopes) == FALSE

\* the test of line 135: close returns at once
OutOfScope(s, scopes) == s.node # "NONE" /\ Scope(s.node) \notin scopes

\* Resume without line 146: the finished generator stays in the field
Resume_keep(s, with_value) ==
    [s EXCEPT !.resumes = @ + 1, !.val = with_value]

\* lines 143-146: await self.generator.asend(with_value).  A producer is a
\* two-phase generator: resumed after its only yield it runs its
\* finalization and ends (StopAsyncIteration), so the field becomes None.
Resume(s, with_value) ==
    [s EXCEPT !.gen = "done", !.resumes = @ + 1, !.val = with_value]

\* NodeSession.close(with_value, scopes) on the session at heap[id];
\* CloseEach is the loop of line 138 (sub-sessions get with_value = None).
RECURSIVE Close(_, _, _, _)
RECURSIVE CloseEach(_, _, _)
Close(heap, id, with_value, scopes) ==
    IF OutOfScope(heap[id], scopes)
    THEN heap
    ELSE LET h1 == CloseEach(heap, heap[id].subs, scopes)
         IN IF GeneratorIsNone(h1[id])
            THEN h1
            ELSE [h1 EXCEPT ![id] = Resume(h1[id], with_value)]

\* the loop of line 138 handing a value on to the sub-sessions
RECURSIVE CloseEach_value(_, _, _)
CloseEach_value(heap, ids, scopes) ==
    IF ids = <<>>
    THEN heap
    ELSE CloseEach_value(Close(heap, Head(ids), "v", scopes), Tail(ids), scopes)

CloseEach(heap, ids, scopes) ==
    IF ids = <<>>
    THEN heap
    ELSE CloseEach(Close(heap, Head(ids), "None", scopes), Tail(ids), scopes)

\* close_all leaving its loop after the first session
close_all_first(heap, ids, with_value, scopes) ==
    IF ids = <<>> THEN heap ELSE Close(heap, Head(ids), with_value, scopes)

\* NodeCollection.close_all(with_value, scopes) over sessions.values()
RECURSIVE close_all(_, _, _, _)
close_all(heap, ids, with_value, scopes) ==
    IF ids = <<>>
    THEN heap
    ELSE close_all(Close(heap, Head(ids), with_value, scopes), Tail(ids),
                   with_value, scopes)

\* ----------------------------------------------------------- compose_node

\* one activation of compose_node(_node, update, ctx): context.sessions so
\* far (subs, in declaration order), whether node.compose was called, and
\* the reference its session will have
NewFrame(T, ref) == [node |-> T, subs |-> <<>>, started |-> FALSE, ref |-> ref]

\* compose_node not looking in node_ctx
SubNodeCached_never(nctx, sub) == FALSE

\* line 42: subnode in node_ctx
SubNodeCached(nctx, sub) == nctx[sub] # Nil

\* SubNodesDone leaving the loop of line 41 after its first round
SubNodesDone_early(frame) ==
    Len(frame.subs) = Len(SubNodes(frame.node)) \/ Len(frame.subs) >= 1

\* the loop of line 41 is over: every declared sub-node has its session
SubNodesDone(frame) == Len(frame.subs) = Len(SubNodes(frame.node))

\* StoreSubNode without the scope test of line 47
StoreSubNode_any(nctx, sub, id) == [nctx EXCEPT ![sub] = id]

\* lines 47-48, after a sub-node was composed
StoreSubNode(nctx, sub, id) ==
    IF Scope(sub) = "PER_EVENT" THEN [nctx EXCEPT ![sub] = id] ELSE nctx

\* the chain of nested compose_node coroutines is longer than the interpreter
\* allows: the innermost call raises RecursionError, which no frame catches
TooDeep(stack) == Len(stack) > MaxDepth

\* compose_node run from where the task stands to its next await of a
\* producer (line 57 or 60): cache hits (line 43) and recursive calls
\* (line 45) do not suspend the task.  The run stops where the chain of
\* calls is too deep.
RECURSIVE RunToAwait(_, _)
RunToAwait(stack, nctx) ==
    LET n == Len(stack)
        top == stack[n]
    IN IF TooDeep(stack)
       THEN stack
       ELSE IF SubNodesDone(top)
       THEN [stack EXCEPT ![n].started = TRUE]
       ELSE LET sub == SubNodes(top.node)[Len(top.subs) + 1]
            IN IF SubNodeCached(nctx, sub)
               THEN RunToAwait([stack EXCEPT ![n].subs = Append(@, nctx[sub])], nctx)
               ELSE RunToAwait(Append(stack,
                                      NewFrame(sub, Append(top.ref, Len(top.subs) + 1))),
                               nctx)

\* the node whose producer a task suspended in RunToAwait is awaiting
Awaited(stack) == stack[Len(stack)].node

\* asyncio.Task(compose_node(node_t, update, ctx)), line 86, and
\* asyncio.Task(node_class.compose_context_annotation(...)), line 106.
\* st: "new" = created, not yet run; "io" = suspended in a producer (or in
\* the annotation lookup); "ok" = finished with result res; "err" = ended
\* by the exception err.
NewTask(c, name, e, kind, T) ==
    [call |-> c, name |-> name, ev |-> e, kind |-> kind,
     stack |-> IF kind = "node" THEN <<NewFrame(T, <<c, name>>)>> ELSE <<>>,
     st |-> "new", res |-> Nil, err |-> "none"]

Unfinished(ts) ==
    LET running(t) == t.st \in {"new", "io"}
    IN SelectSeq(ts, running)

\* ---------------------------------------------------------- compose_nodes

\* CachedSession without the GLOBAL branch of lines 82-84
CachedSession_noglobal(nctx, gv, T) ==
    IF Scope(T) = "PER_EVENT" /\ nctx[T] # Nil THEN nctx[T] ELSE Nil

\* lines 79-84: the session a requested node is short-circuited to, Nil if
\* it must be produced
CachedSession(nctx, gv, T) ==
    IF Scope(T) = "PER_EVENT" /\ nctx[T] # Nil THEN nctx[T]
    ELSE IF Scope(T) = "GLOBAL" /\ gv[T] # Nil THEN gv[T]
    ELSE Nil

\* run_node_composers with suppress(ComposeError) only
run_node_composers_narrow(first) ==
    IF first = "none" THEN "True"
    ELSE IF first = "ComposeError" THEN "False"
    ELSE first

\* run_node_composers with suppress(Exception)
run_node_composers_broad(first) ==
    IF first = "none" THEN "True" ELSE "False"

\* run_node_composers: True, False, or the exception gather re-raises that
\* suppress(...) does not name.  first is the exception of the first task
\* that failed ("none" when every task finished).
run_node_composers(first) ==
    IF first = "none" THEN "True"
    ELSE IF first \in Suppressed THEN "False"
    ELSE first

\* StoreResult putting a cacheable session in its cache and not in node_sessions
StoreResult_cacheonly(heap, st, t) ==
    LET T == heap[t.res].node
    IN [ns   |-> IF Scope(T) = "PER_CALL" THEN DictSet(st.ns, t.name, t.res)
                 ELSE st.ns,
        nctx |-> IF Scope(T) = "PER_EVENT" THEN [st.nctx EXCEPT ![T] = t.res]
                 ELSE st.nctx,
        gv   |-> IF Scope(T) = "GLOBAL" THEN [st.gv EXCEPT ![T] = t.res]
                 ELSE st.gv]

\* StoreResult writing node_ctx whatever the scope of the node
StoreResult_anyscope(heap, st, t) ==
    LET T == heap[t.res].node
    IN [ns   |-> DictSet(st.ns, t.name, t.res),
        nctx |-> [st.nctx EXCEPT ![T] = t.res],
        gv   |-> IF Scope(T) = "GLOBAL" THEN [st.gv EXCEPT ![T] = t.res]
                 ELSE st.gv]

\* lines 92-101 for one finished task
StoreResult(heap, st, t) ==
    LET T == heap[t.res].node
    IN [ns   |-> DictSet(st.ns, t.name, t.res),
        nctx |-> IF Scope(T) = "PER_EVENT" THEN [st.nctx EXCEPT ![T] = t.res]
                 ELSE st.nctx,
        gv   |-> IF Scope(T) = "GLOBAL" THEN [st.gv EXCEPT ![T] = t.res]
                 ELSE st.gv]

\* the loop of line 92 over node_tasks.items()
RECURSIVE StoreResults(_, _, _)
StoreResults(heap, st, ts) ==
    IF ts = <<>> THEN st
    ELSE StoreResults(heap, StoreResult(heap, st, Head(ts)), Tail(ts))

\* lines 114-115 over _node_tasks.items()
RECURSIVE StoreAnnotations(_, _)
StoreAnnotations(ns, ts) ==
    IF ts = <<>> THEN ns
    ELSE StoreAnnotations(DictSet(ns, Head(ts).name, Head(ts).res), Tail(ts))

\* the tasks of the call in progress, in creation order
Mine(kind) ==
    LET mine(t) == t.call = call.id /\ t.kind = kind
    IN SelectSeq(tasks, mine)

AllStarted(kind) == \A i \in 1..Len(Mine(kind)) : Mine(kind)[i].st # "new"

AllDone(kind) == \A i \in 1..Len(Mine(kind)) : Mine(kind)[i].st = "ok"

Returned(c, result, ns) ==
    [c EXCEPT !.pc = "returned", !.result = result, !.ns = ns]

Record(c, result, ns) ==
    Append(hist, [req |-> c.req, ev |-> c.ev, ann |-> c.ann, result |-> result,
                  coll |-> ns])

\* between two calls: nothing is in progress, and a returned collection
\* has been through the handler and the close that follows it
Between ==
    \/ call.pc = "idle"
    \/ call.pc = "returned" /\ call.result # "collection"
    \/ call.pc = "handled" /\ call.closes >= 1

\* ---------------------------------------------------------------- actions

Init ==
    /\ sess = [r \in {} |-> NoCall]
    /\ node_ctx = [e \in 1..MaxEvents |-> EmptyCtx]
    /\ gvalue = EmptyCtx
    /\ ev = 1
    /\ tasks = <<>>
    /\ call = NoCall
    /\ ncalls = 0
    /\ prod = [e \in 1..MaxEvents |-> NoCount]
    /\ hist = <<>>

\* a new Context (a new event): its node_ctx is empty
NewEvent ==
    /\ Between
    /\ ev < MaxEvents
    /\ ev' = ev + 1
    /\ UNCHANGED <<sess, node_ctx, gvalue, tasks, call, ncalls, prod, hist>>

\* compose_nodes, lines 72-86, up to the await of line 88
CallStart(req, ann) ==
    LET nctx == node_ctx[ev]
        hit(k) == CachedSession(nctx, gvalue, req[k]) # Nil
        miss(k) == ~hit(k)
        hits == SelectSeq(Idx(Len(req)), hit)
        misses == SelectSeq(Idx(Len(req)), miss)
        c == ncalls + 1
    IN /\ Between
       /\ ncalls < MaxCalls
       /\ ncalls' = c
       /\ call' = [NoCall EXCEPT
                     !.id = c, !.pc = "gather", !.ev = ev, !.req = req, !.ann = ann,
                     !.ns = [i \in 1..Len(hits) |->
                               <<hits[i], CachedSession(nctx, gvalue, req[hits[i]])>>]]
       /\ tasks' = Unfinished(tasks) \o
                     [i \in 1..Len(misses) |->
                        NewTask(c, misses[i], ev, "node", req[misses[i]])]
       /\ UNCHANGED <<sess, node_ctx, gvalue, ev, prod, hist>>

\* the first exception among the tasks gather is waiting for
NoteError(c, t, pc, o) ==
    IF t.call = c.id /\ c.pc = pc /\ c.err = "none" THEN [c EXCEPT !.err = o] ELSE c

\* the first step of a task: the loop runs ready callbacks in the order
\* they were scheduled, so tasks start in creation order
StartTask(i) ==
    /\ tasks[i].st = "new"
    /\ \A j \in 1..(i - 1) : tasks[j].st # "new"
    /\ IF tasks[i].kind = "node"
       THEN LET stack == RunToAwait(tasks[i].stack, node_ctx[tasks[i].ev])
            IN IF TooDeep(stack)
               THEN /\ tasks' = [tasks EXCEPT ![i].st = "err",
                                              ![i].err = "RecursionError"]
                    /\ call' = NoteError(call, tasks[i], "gather", "RecursionError")
                    /\ UNCHANGED prod
               ELSE /\ tasks' = [tasks EXCEPT ![i].st = "io", ![i].stack = stack]
                    /\ prod' = [prod EXCEPT ![tasks[i].ev][Awaited(stack)] = @ + 1]
                    /\ UNCHANGED call
       ELSE /\ tasks' = [tasks EXCEPT ![i].st = "io"]
            /\ UNCHANGED <<prod, call>>
    /\ UNCHANGED <<sess, node_ctx, gvalue, ev, ncalls, hist>>

\* the awaited producer returns its value: line 62 builds the session and
\* the caller (if any) goes on from line 45 to its next await
ProducerReturn(i) ==
    LET t == tasks[i]
        n == Len(t.stack)
        top == t.stack[n]
        id == top.ref
    IN /\ t.st = "io"
       /\ t.kind = "node"
       /\ sess' = Alloc(sess, id, NewSession(top.node, top.subs))
       /\ IF n = 1
          THEN /\ tasks' = [tasks EXCEPT ![i].st = "ok", ![i].res = id, ![i].stack = <<>>]
               /\ UNCHANGED <<node_ctx, prod, call>>
          ELSE LET nctx == StoreSubNode(node_ctx[t.ev], top.node, id)
                   back == [SubSeq(t.stack, 1, n - 1) EXCEPT ![n - 1].subs = Append(@, id)]
                   stack == RunToAwait(back, nctx)
               IN /\ node_ctx' = [node_ctx EXCEPT ![t.ev] = nctx]
                  /\ IF TooDeep(stack)
                     THEN /\ tasks' = [tasks EXCEPT ![i].st = "err",
                                                    ![i].err = "RecursionError"]
                          /\ call' = NoteError(call, t, "gather", "RecursionError")
                          /\ UNCHANGED prod
                     ELSE /\ tasks' = [tasks EXCEPT ![i].stack = stack]
                          /\ prod' = [prod EXCEPT ![t.ev][Awaited(stack)] = @ + 1]
                          /\ UNCHANGED call
       /\ UNCHANGED <<gvalue, ev, ncalls, hist>>

\* the awaited producer raises: no compose_node frame catches, the task ends
ProducerRaise(i, o) ==
    /\ tasks[i].st = "io"
    /\ tasks[i].kind = "node"
    /\ o \in Outcomes(Awaited(tasks[i].stack)) \ {"ok"}
    /\ tasks' = [tasks EXCEPT ![i].st = "err", ![i].err = o]
    /\ call' = NoteError(call, tasks[i], "gather", o)
    /\ UNCHANGED <<sess, node_ctx, gvalue, ev, ncalls, prod, hist>>

\* compose_context_annotation returns: the task's result
AnnotationReturn(i) ==
    /\ tasks[i].st = "io"
    /\ tasks[i].kind = "ann"
    /\ sess' = Alloc(sess, <<tasks[i].call, tasks[i].name>>, NewSession("NONE", <<>>))
    /\ tasks' = [tasks EXCEPT ![i].st = "ok", ![i].res = <<tasks[i].call, tasks[i].name>>]
    /\ UNCHANGED <<node_ctx, gvalue, ev, call, ncalls, prod, hist>>

AnnotationRaise(i, o) ==
    /\ tasks[i].st = "io"
    /\ tasks[i].kind = "ann"
    /\ tasks' = [tasks EXCEPT ![i].st = "err", ![i].err = o]
    /\ call' = NoteError(call, tasks[i], "anngather", o)
    /\ UNCHANGED <<sess, node_ctx, gvalue, ev, ncalls, prod, hist>>

\* what compose_nodes does when run_node_composers did not return True:
\* lines 89-90 (and 111-112), or the exception leaves compose_nodes
Abort(ns) ==
    LET r == run_node_composers(call.err)
        result == IF r = "False" THEN "None" ELSE "raised"
    IN /\ sess' = IF r = "False"
                  THEN close_all(sess, DictValues(ns), "None", DefaultScopes)
                  ELSE sess
       /\ call' = Returned(call, result, ns)
       /\ hist' = Record(call, result, ns)

\* line 88, a task failed
NodesFailed ==
    /\ call.pc = "gather"
    /\ AllStarted("node")
    /\ call.err # "none"
    /\ Abort(call.ns)
    /\ UNCHANGED <<node_ctx, gvalue, ev, tasks, ncalls, prod>>

\* line 88, every task finished: lines 92-108, or 92-103 and 117
NodesComposed ==
    LET st == StoreResults(sess,
                           [ns |-> call.ns, nctx |-> node_ctx[call.ev], gv |-> gvalue],
                           Mine("node"))
    IN /\ call.pc = "gather"
       /\ call.err = "none"
       /\ AllDone("node")
       /\ node_ctx' = [node_ctx EXCEPT ![call.ev] = st.nctx]
       /\ gvalue' = st.gv
       /\ IF call.ann
          THEN /\ call' = [call EXCEPT !.pc = "anngather", !.ns = st.ns]
               /\ tasks' = Append(tasks,
                                  NewTask(call.id, Len(call.req) + 1, call.ev, "ann", "NONE"))
               /\ UNCHANGED hist
          ELSE /\ call' = Returned(call, "collection", st.ns)
               /\ hist' = Record(call, "collection", st.ns)
               /\ UNCHANGED tasks
       /\ UNCHANGED <<sess, ev, ncalls, prod>>

\* line 110, an annotation lookup failed
AnnotationsFailed ==
    /\ call.pc = "anngather"
    /\ AllStarted("ann")
    /\ call.err # "none"
    /\ Abort(call.ns)
    /\ UNCHANGED <<node_ctx, gvalue, ev, tasks, ncalls, prod>>

\* lines 114-117
AnnotationsComposed ==
    LET ns == StoreAnnotations(call.ns, Mine("ann"))
    IN /\ call.pc = "anngather"
       /\ call.err = "none"
       /\ AllDone("ann")
       /\ call' = Returned(call, "collection", ns)
       /\ hist' = Record(call, "collection", ns)
       /\ UNCHANGED <<sess, node_ctx, gvalue, ev, tasks, ncalls, prod>>

\* the caller of compose_nodes got a collection and runs the handler
Handler(outcome) ==
    /\ call.pc = "returned"
    /\ call.result = "collection"
    /\ call' = [call EXCEPT !.pc = "handled", !.handler = outcome]
    /\ UNCHANGED <<sess, node_ctx, gvalue, ev, tasks, ncalls, prod, hist>>

\* NodeCollection.close_all(with_value, scopes) on the returned collection
CloseAll(with_value, scopes) ==
    /\ call.pc = "handled"
    /\ call.closes < MaxCloses
    /\ sess' = close_all(sess, DictValues(call.ns), with_value, scopes)
    /\ call' = [call EXCEPT !.closes = @ + 1, !.scopes = Append(@, scopes)]
    /\ UNCHANGED <<node_ctx, gvalue, ev, tasks, ncalls, prod, hist>>

Next ==
    \/ NewEvent
    \/ \E h \in Requests : CallStart(h.nodes, h.ann)
    \/ \E i \in 1..Len(tasks) : StartTask(i)
    \/ \E i \in 1..Len(tasks) : ProducerReturn(i)
    \/ \E i \in 1..Len(tasks), o \in Suppressed \cup {"OtherError"} : ProducerRaise(i, o)
    \/ \E i \in 1..Len(tasks) : AnnotationReturn(i)
    \/ \E i \in 1..Len(tasks), o \in Suppressed \cup {"OtherError"} : AnnotationRaise(i, o)
    \/ NodesFailed
    \/ NodesComposed
    \/ AnnotationsFailed
    \/ AnnotationsComposed
    \/ \E outcome \in {"ok", "raised"} : Handler(outcome)
    \/ \E v \in CloseValues, scopes \in ScopeSets : CloseAll(v, scopes)

Spec == Init /\ [][Next]_vars

\* ------------------------------------------------------------- properties

\* compose_nodes has returned to its caller
HasReturned == call.pc \in {"returned", "handled"}

\* the sessions created by compose_nodes call c
CreatedBy(c) == {r \in DOMAIN sess : r[1] = c}

\* a producer run for the call in progress has failed
ProducerFailed ==
    \E i \in 1..Len(tasks) :
        tasks[i].call = call.id /\ tasks[i].kind = "node" /\ tasks[i].st = "err"

C2_NoOpenHandleAfterFailure ==
    (call.pc = "returned" /\ call.result = "None" /\ ProducerFailed) =>
        \A r \in CreatedBy(call.id) :
            (sess[r].node # "NONE" /\ Scope(sess[r].node) = "PER_CALL")
                => sess[r].gen # "open"

\* the declared sub-nodes of the session at r that are PER_EVENT nodes
PerEventSubs(r) ==
    {p \in 1..Len(sess[r].subs) : Scope(SubNodes(sess[r].node)[p]) = "PER_EVENT"}

\* C3 as stated: in a successful call (taken as the first call made), any
\* two sessions composed by it that declare the same PER_EVENT sub-node
\* hold the identical session for it, and that sub-node's producer was
\* invoked once for the event.
C3_PerEventShared ==
    (call.id = 1 /\ HasReturned /\ call.result = "collection") =>
        /\ \A r1, r2 \in CreatedBy(1) :
             \A p1 \in PerEventSubs(r1), p2 \in PerEventSubs(r2) :
                SubNodes(sess[r1].node)[p1] = SubNodes(sess[r2].node)[p2]
                    => sess[r1].subs[p1] = sess[r2].subs[p2]
        /\ \A T \in NodeTypes : Scope(T) = "PER_EVENT" => prod[call.ev][T] <= 1

\* the calls that returned a collection with node T requested at the top level
GotAtTop(T) ==
    {c \in 1..Len(hist) :
        hist[c].result = "collection" /\ \E k \in 1..Len(hist[c].req) : hist[c].req[k] = T}

\* the session call c returned for its parameter of type T
TopSession(c, T) ==
    DictGet(hist[c].coll, CHOOSE k \in 1..Len(hist[c].req) : hist[c].req[k] = T)

\* C4: for a GLOBAL node requested at the top level (under one name per
\* call), all successful, non-overlapping compose_nodes calls, whatever
\* their event context, return one and the same session, and these calls
\* invoked the node's producer for a top-level request at most once; when
\* every call so far succeeded, that is its whole top-level count.
C4_GlobalOnce ==
    \A T \in NodeTypes : Scope(T) = "GLOBAL" =>
        /\ \A c1, c2 \in GotAtTop(T) : TopSession(c1, T) = TopSession(c2, T)
        /\ Cardinality({r \in DOMAIN sess :
                            /\ Len(r) = 2
                            /\ sess[r].node = T
                            /\ r[1] \in GotAtTop(T)}) <= 1
        /\ (\A c \in 1..Len(hist) : hist[c].result = "collection") =>
              Cardinality({r \in DOMAIN sess : Len(r) = 2 /\ sess[r].node = T}) <= 1

\* two successful calls under different event contexts returned the same G session
C4_Witness ==
    /\ Len(hist) = 2
    /\ GotAtTop("G") = {1, 2}
    /\ hist[1].ev # hist[2].ev
    /\ TopSession(1, "G") = TopSession(2, "G")
    /\ TopSession(2, "G") = <<1, 2>>

\* C5: a second close_all with the same scopes as the one before it
\* changes no session (it resumes nothing), and no generator is ever
\* resumed for finalization more than once.
C5_IdempotentClose ==
    [][ /\ \A r \in DOMAIN sess' : sess'[r].resumes <= 1
        /\ ( /\ call.pc = "handled"
             /\ call.closes >= 1
             /\ call'.id = call.id
             /\ call'.closes = call.closes + 1
             /\ call'.scopes[call'.closes] = call.scopes[call.closes] )
           => sess' = sess ]_vars

\* close_all ran twice with every scope on a collection in which two
\* top-level sessions share one finalized sub-session
C5_Witness ==
    /\ call.pc = "handled"
    /\ call.closes = 2
    /\ call.scopes[1] = call.scopes[2]
    /\ "PER_EVENT" \in call.scopes[1]
    /\ Len(call.ns) = 2
    /\ LET a == sess[call.ns[1][2]]
           b == sess[call.ns[2][2]]
       IN /\ call.ns[1][2] # call.ns[2][2]
          /\ a.node = "X" /\ b.node = "X"
          /\ a.subs[1] = b.subs[1]
          /\ sess[a.subs[1]].resumes = 1

\* every declared sub-node of the frame has a resolved session of its type
SubNodesResolved(f) ==
    /\ Len(f.subs) = Len(SubNodes(f.node))
    /\ \A p \in 1..Len(f.subs) :
          /\ f.subs[p] \in DOMAIN sess
          /\ sess[f.subs[p]].node = SubNodes(f.node)[p]

\* C6: a node's producer has been started only if every declared sub-node
\* has a resolved session; in a task ended by a failure, no node waiting
\* for the failed sub-node has had its producer started.
C6_DependencyOrder ==
    \A i \in 1..Len(tasks) :
        /\ \A k \in 1..Len(tasks[i].stack) :
              tasks[i].stack[k].started => SubNodesResolved(tasks[i].stack[k])
        /\ \A k \in 1..(Len(tasks[i].stack) - 1) : ~tasks[i].stack[k].started

\* X's producer is running on a cached Y session and a freshly produced G
C6_Witness ==
    \E i \in 1..Len(tasks) :
        /\ tasks[i].st = "io"
        /\ Len(tasks[i].stack) = 1
        /\ tasks[i].stack[1].node = "X"
        /\ tasks[i].stack[1].started
        /\ tasks[i].stack[1].subs[1][1] # tasks[i].call
        /\ tasks[i].stack[1].subs[2] = <<tasks[i].call, tasks[i].name, 2>>

\* the sessions close_all(scopes) is to finalize: those of the collection
\* in scope, and below them the sub-sessions in scope
RECURSIVE InScope(_, _)
InScope(ids, scopes) ==
    LET here == {ids[k] : k \in 1..Len(ids)}
        live == {r \in here : ~OutOfScope(sess[r], scopes)}
    IN live \cup UNION {InScope(sess[r].subs, scopes) : r \in live}

C8_ScopeGatedClose ==
    \A v \in CloseValues :
        /\ \A r \in DOMAIN sess, scopes \in ScopeSets :
              (sess[r].node # "NONE" /\ Scope(sess[r].node) \notin scopes)
                  => Close(sess, r, v, scopes) = sess
        /\ LET after == close_all(sess, DictValues(call.ns), v, DefaultScopes)
           IN \A r \in DOMAIN sess :
                 (sess[r].node # "NONE" /\ Scope(sess[r].node) # "PER_CALL")
                     => after[r] = sess[r]

\* a default close_all finalized a top-level X and left its Y and G
\* sub-sessions live
C8_Witness ==
    /\ call.pc = "handled"
    /\ call.scopes = <<DefaultScopes>>
    /\ \E k \in 1..Len(call.ns) :
          LET x == sess[call.ns[k][2]]
          IN /\ x.node = "X"
             /\ x.resumes = 1
             /\ sess[x.subs[1]].gen = "open"
             /\ sess[x.subs[2]].gen = "open"

\* who refers to the session r: the sessions holding it as a sub-session
\* and the returned collections holding it under a name
Referrers(r) ==
    UNION {{<<q, p>> : p \in {x \in 1..Len(sess[q].subs) : sess[q].subs[x] = r}} :
              q \in DOMAIN sess}

Holders(r) ==
    UNION {{<<c, k>> : k \in {x \in 1..Len(hist[c].coll) : hist[c].coll[x][2] = r}} :
              c \in 1..Len(hist)}

\* C9: the per-event cache holds only PER_EVENT sessions and the GLOBAL
\* cache only GLOBAL sessions, each under its own node type, and a
\* PER_CALL session answers one request only: it is the sub-session of at
\* most one session or the entry of at most one returned collection.
C9_PerCallNeverCached ==
    /\ \A e \in 1..MaxEvents, T \in NodeTypes :
          node_ctx[e][T] # Nil =>
              (Scope(T) = "PER_EVENT" /\ sess[node_ctx[e][T]].node = T)
    /\ \A T \in NodeTypes :
          gvalue[T] # Nil => (Scope(T) = "GLOBAL" /\ sess[gvalue[T]].node = T)
    /\ \A r \in DOMAIN sess :
          (sess[r].node # "NONE" /\ Scope(sess[r].node) = "PER_CALL") =>
              Cardinality(Referrers(r)) + Cardinality(Holders(r)) <= 1

\* two calls of the same handler under different event contexts each got
\* a W session of their own, at the top level and below their E session
C9_Witness ==
    /\ Len(hist) = 2
    /\ hist[1].ev # hist[2].ev
    /\ hist[1].result = "collection" /\ hist[2].result = "collection"
    /\ hist[1].req = <<"W", "E">> /\ hist[2].req = <<"W", "E">>
    /\ DictGet(hist[1].coll, 1) # DictGet(hist[2].coll, 1)
    /\ sess[DictGet(hist[1].coll, 2)].subs[1] # sess[DictGet(hist[2].coll, 2)].subs[1]

Running(c) ==
    {i \in 1..Len(tasks) : tasks[i].call = c /\ tasks[i].st \in {"new", "io"}}

\* C11: when one branch of a compose_nodes call fails, every other task the
\* call launched has completed by the time the call returns its failure:
\* none of them keeps running after the return.
C11_NoTaskRunsAfterFailure ==
    (HasReturned /\ call.result # "collection") => Running(call.id) = {}

\* ------------------------------------------------------------------- C12

\* the names a compose_nodes call was asked for: the keys of nodes and,
\* for a handler with context annotations, the annotation's key
RequestedNames(c) ==
    1..(IF c.ann THEN Len(c.req) + 1 ELSE Len(c.req))

\* sessions[name] of the collection, Nil when the name is missing
SessionOf(ns, name) ==
    IF \E i \in 1..Len(ns) : ns[i][1] = name THEN DictGet(ns, name) ELSE Nil

AllSucceeded == \A c \in 1..Len(hist) : hist[c].result = "collection"

\* the sessions of a GLOBAL node type on the heap
GlobalSessions == {r \in DOMAIN sess : Scope(sess[r].node) = "GLOBAL"}

\* C13: the GLOBAL cache is applied at every depth.  Once a resolution has
\* succeeded, a GLOBAL node it produced, at top level or as a sub-node, is
\* in the GLOBAL cache, and no other resolution produces that node again:
\* across resolutions that do not overlap, all sessions of a GLOBAL node
\* come from one resolution.
C13_GlobalAtEveryDepth ==
    AllSucceeded =>
        /\ \A r \in GlobalSessions :
              r[1] <= Len(hist) => gvalue[sess[r].node] # Nil
        /\ \A r1, r2 \in GlobalSessions :
              sess[r1].node = sess[r2].node => r1[1] = r2[1]

\* ------------------------------------------------------------------- C14

\* the sessions reachable from ids through the subnodes mappings
RECURSIVE Tree(_)
Tree(ids) ==
    IF ids = <<>> THEN {}
    ELSE {Head(ids)} \cup Tree(sess[Head(ids)].subs) \cup Tree(Tail(ids))

\* C14: after close_all with the default scopes on a returned collection,
\* every PER_CALL session reachable in the collection's session tree has
\* had its generator finalized, those below a PER_EVENT or GLOBAL parent
\* included.
C14_PerCallDieWithCollection ==
    (call.pc = "handled" /\ call.closes >= 1) =>
        \A r \in Tree(DictValues(call.ns)) :
            (sess[r].node # "NONE" /\ Scope(sess[r].node) = "PER_CALL")
                => sess[r].gen # "open"

\* ------------------------------------------------------------------- C15

\* the cache entries that refer to a session created by compose_nodes call c
EventEntries(c) ==
    {<<e, T>> \in (1..MaxEvents) \X NodeTypes :
        node_ctx[e][T] # Nil /\ node_ctx[e][T][1] = c}

GlobalEntries(c) == {T \in NodeTypes : gvalue[T] # Nil /\ gvalue[T][1] = c}

\* the call got as far as the context annotations (line 103)
ReachedAnnotations(c) ==
    \E i \in 1..Len(tasks) : tasks[i].call = c /\ tasks[i].kind = "ann"

\* C15 as stated: if compose_nodes returns failure, neither cache has gained
\* an entry because of that call.
C15_NoCacheEntryOnFailure ==
    (HasReturned /\ call.result # "collection") =>
        EventEntries(call.id) = {} /\ GlobalEntries(call.id) = {}

\* C15, amended: after a failure return the entries the call wrote are
\* sessions that were produced, each under its own node type and in the
\* cache of its scope; an entry for a session returned by a top-level task
\* is there only if the failure was a context-annotation failure, every
\* other entry is a PER_EVENT sub-node stored inside a branch.
C15_CacheEntriesOnFailure ==
    (HasReturned /\ call.result # "collection") =>
        /\ \A p \in EventEntries(call.id) :
              LET r == node_ctx[p[1]][p[2]]
              IN /\ r \in DOMAIN sess
                 /\ sess[r].node = p[2]
                 /\ Scope(p[2]) = "PER_EVENT"
                 /\ p[1] = call.ev
                 /\ Len(r) = 2 => ReachedAnnotations(call.id)
        /\ \A T \in GlobalEntries(call.id) :
              /\ gvalue[T] \in DOMAIN sess
              /\ sess[gvalue[T]].node = T
              /\ Scope(T) = "GLOBAL"
              /\ Len(gvalue[T]) = 2
              /\ ReachedAnnotations(call.id)

\* a first call failed at its context annotation and left the PER_EVENT
\* session of its top-level node E in the cache; a second call failed in a
\* producer and left the PER_EVENT sub-node session of a sibling branch
C15_Witness ==
    /\ call.id = 2
    /\ call.pc = "returned"
    /\ call.result # "collection"
    /\ ~ReachedAnnotations(2)
    /\ node_ctx[call.ev]["Y"] # Nil
    /\ node_ctx[call.ev]["Y"][1] = 2
    /\ Len(node_ctx[call.ev]["Y"]) = 3
    /\ hist[1].result = "None"
    /\ hist[1].ann
    /\ node_ctx[hist[1].ev]["E"] = <<1, 2>>

\* ------------------------------------------------------------------- C16

\* compose_nodes call c returned a collection and produced a session of T
ProducedIn(c, T) ==
    /\ c \in 1..Len(hist)
    /\ hist[c].result = "collection"
    /\ \E r \in CreatedBy(c) : sess[r].node = T

\* C16: after a resolution that succeeded and produced a PER_EVENT node T,
\* at top level or as a sub-node, a later resolution under the same event
\* context does not compose T again: every session of T it hands out, at
\* top level or as a sub-session, was created before it started.
C16_PerEventReuse ==
    \A c \in 1..Len(hist), T \in NodeTypes :
        (/\ Scope(T) = "PER_EVENT"
         /\ c < call.id
         /\ hist[c].ev = call.ev
         /\ ProducedIn(c, T))
        => /\ \A i \in 1..Len(tasks) :
                 (tasks[i].call = call.id /\ tasks[i].kind = "node") =>
                     \A k \in 1..Len(tasks[i].stack) : tasks[i].stack[k].node # T
           /\ \A r \in CreatedBy(call.id) :
                 /\ sess[r].node # T
                 /\ \A p \in 1..Len(sess[r].subs) :
                       sess[sess[r].subs[p]].node = T => sess[r].subs[p][1] < call.id
           /\ \A k \in 1..Len(call.ns) :
                 sess[call.ns[k][2]].node = T => call.ns[k][2][1] < call.id

\* the first call produced Y at top level; the second, under the same event
\* context, composed X and gave it the first call's Y session
C16_Witness ==
    /\ call.id = 2
    /\ call.result = "collection"
    /\ hist[1].ev = call.ev
    /\ hist[1].result = "collection"
    /\ hist[1].req = <<"G", "Y">>
    /\ call.req[1] = "X"
    /\ SessionOf(call.ns, 1) # Nil
    /\ sess[SessionOf(call.ns, 1)].subs[1] = <<1, 2>>
    /\ prod[call.ev]["Y"] = 1

\* ------------------------------------------------------------------- C17

\* the heap at the moment close(scopes) of session id gets to its own
\* generator (line 141): the loop of lines 138-139 is over
AtOwnGenerator(heap, id, scopes) == CloseEach(heap, heap[id].subs, scopes)

\* C17: within NodeSession.close the generators of a session's sub-sessions
\* are finalized together with or after the session's own generator, never
\* before it: in every close_all on a returned collection, when close
\* resumes a session's own live generator no sub-session of it has been
\* finalized by that close.
C17_ParentClosedFirst ==
    [][call'.closes = call.closes + 1 =>
          LET scopes == call'.scopes[Len(call'.scopes)]
          IN \A r \in InScope(DictValues(call.ns), scopes) :
                (sess[r].gen = "open" /\ sess'[r].gen = "done") =>
                    \A p \in 1..Len(sess[r].subs) :
                        AtOwnGenerator(sess, r, scopes)[sess[r].subs[p]].resumes
                            = sess[sess[r].subs[p]].resumes]_vars

\* ------------------------------------------------------------------- C18

\* the sub-nodes of frame f that are neither resolved nor being composed by
\* the frame above it, and that compose_node will have to compose
Waiting(f, above, nctx) ==
    {p \in (Len(f.subs) + 1)..Len(SubNodes(f.node)) :
        /\ Append(f.ref, p) # above.ref
        /\ ~SubNodeCached(nctx, SubNodes(f.node)[p])}

\* C18: the sub-nodes declared by one node are produced concurrently, by
\* the rule of the top-level nodes (every task is launched before any is
\* awaited): while the production of one sub-node is in flight, no other
\* sub-node of the same parent is still waiting to be started.
C18_SubNodesConcurrent ==
    \A i \in 1..Len(tasks) :
        (tasks[i].kind = "node" /\ tasks[i].st = "io") =>
            \A k \in 1..(Len(tasks[i].stack) - 1) :
                Waiting(tasks[i].stack[k], tasks[i].stack[k + 1],
                        node_ctx[tasks[i].ev]) = {}

\* ------------------------------------------------------------------- C19

\* C19: a cyclic declaration is rejected at first use and the resolver does
\* not recurse around the cycle: no task is ever composing a node inside a
\* compose_node call for that same node (P declares itself as a sub-node).
C19_CycleRejected ==
    \A i \in 1..Len(tasks) :
        tasks[i].kind = "node" =>
            \A j, k \in 1..Len(tasks[i].stack) :
                tasks[i].stack[j].node = tasks[i].stack[k].node => j = k

\* ------------------------------------------------------------------- C20

\* C20: if every requested node was produced and the context-annotation
\* lookup then fails with ComposeError or UnwrapError, compose_nodes
\* returns None and, by then, has finalized every PER_CALL session it
\* produced in that call.
C20_ClosedOnAnnotationFailure ==
    (/\ call.pc = "returned"
     /\ ReachedAnnotations(call.id)
     /\ call.err \in Suppressed)
    => /\ call.result = "None"
       /\ \A r \in CreatedBy(call.id) :
             (sess[r].node # "NONE" /\ Scope(sess[r].node) = "PER_CALL")
                 => sess[r].gen # "open"

\* ------------------------------------------------------------------- C21

\* the sessions of the returned collection: sessions.values() as a set
TopLevel == {call.ns[k][2] : k \in 1..Len(call.ns)}

\* the sessions below the sessions of the returned collection
BelowTop == UNION {Tree(sess[r].subs) : r \in TopLevel}

EventTuple(ns) == DictValues(ns)

\* C22: when compose_nodes returns a collection for the nodes of an
\* adapter, the i-th element of the adapter's tuple is the session composed
\* for the i-th node given to the adapter, whatever mix of cache hits and
\* freshly produced nodes the call had: the collection iterates in the
\* order of the requested names.
C22_PositionalOrder ==
    (HasReturned /\ call.result = "collection" /\ ~call.ann) =>
        /\ Len(EventTuple(call.ns)) = Len(call.req)
        /\ \A i \in 1..Len(call.req) :
              /\ EventTuple(call.ns)[i] = SessionOf(call.ns, i)
              /\ sess[EventTuple(call.ns)[i]].node = call.req[i]

====
